---- MODULE Spec2Model ----
(***************************************************************************)
(* The Twilio webhook gate and the IVR voice flow of the AHC Front Desk    *)
(* Assistant API (src/main.py).                                            *)
(*                                                                         *)
(* Strings are TLA+ strings.  URLs are sequences of chunks in which the    *)
(* one-character chunk "/" is the only chunk that ends in a slash, so that *)
(* str.rstrip("/") is computed on them as Python computes it.  A form or a *)
(* header set is a function whose domain is the set of keys present.       *)
(* Every handler body runs without an await after `await request.form()`,  *)
(* so the event loop runs handler bodies one after the other: a handler is *)
(* one action, and requests are taken one at a time.                       *)
(***************************************************************************)
EXTENDS Integers, Sequences, FiniteSets, TLC

VARIABLES
    env,    \* os.environ: the variables that are set
    db,     \* the document store: collection name -> sequence of documents
    sent,   \* messages the provider accepted (client.messages.create returned)
    req,    \* the request being (or last) handled
    out,    \* what the handler of req did and answered
    gate,   \* validate_twilio_request(req), once req is handled
    phase   \* "idle", "pending" (req received, handler to run), "done"

vars == <<env, db, sent, req, out, gate, phase>>

(***************************************************************************)
(* Bounds of the model.                                                    *)
(***************************************************************************)
\* no request is taken once this many documents and messages exist
MaxLoad == 2

(***************************************************************************)
(* Python values.                                                          *)
(***************************************************************************)
None == "<None>"

\* truth value of an Optional[str]
Truthy(s) == s # None /\ s # ""

\* dict.get(k) / form.get(k) / headers.get(k): None when the key is absent
Get(f, k) == IF k \in DOMAIN f THEN f[k] ELSE None

\* form.get(k, default)
GetOr(f, k, d) == IF k \in DOMAIN f THEN f[k] ELSE d

\* a mapping with no key
Empty == <<>>

\* str.lower() on the values TWILIO_VALIDATE_SIGNATURE takes here
lower(s) == CASE s = "TRUE" -> "true"
              [] s = "True" -> "true"
              [] OTHER -> s

\* str.rstrip("/") on a URL: drop the trailing "/" characters
RECURSIVE rstrip(_)
rstrip(u) ==
    IF u # <<>> /\ u[Len(u)] = "/" THEN rstrip(SubSeq(u, 1, Len(u) - 1)) ELSE u

\* the characters of a URL, as one string
RECURSIVE Str(_)
Str(u) == IF u = <<>> THEN "" ELSE Head(u) \o Str(Tail(u))

(***************************************************************************)
(* Configuration (environment lookups).                                    *)
(***************************************************************************)
\* os.getenv(name) for a string variable
getenv(e, name) == Get(e, name)

\* os.getenv("PUBLIC_BACKEND_URL"): every use tests it with `if base_url`,
\* for which unset and "" are the same; both are the empty URL here
PublicBackendUrl(e) ==
    IF "PUBLIC_BACKEND_URL" \in DOMAIN e THEN e["PUBLIC_BACKEND_URL"] ELSE <<>>

(***************************************************************************)
(* twilio.request_validator.RequestValidator                               *)
(***************************************************************************)
\* the form keys in sorted order
SortedKeys == <<"Body", "CallSid", "Digits", "From", "To">>

\* the signed string: the URL, then key and value of every parameter, by key
RECURSIVE ParamString(_, _)
ParamString(params, keys) ==
    IF keys = <<>> THEN ""
    ELSE (IF Head(keys) \in DOMAIN params
             THEN Head(keys) \o params[Head(keys)] ELSE "")
         \o ParamString(params, Tail(keys))

\* base64(HMAC-SHA1(token, uri + params)), the MAC taken as collision free
compute_signature(token, uri, params) ==
    "hmac[" \o token \o "](" \o Str(uri) \o ParamString(params, SortedKeys) \o ")"

\* RequestValidator(token).validate(uri, params, signature)
validate(token, uri, params, signature) ==
    compute_signature(token, uri, params) = signature

\* str(request.url)
UrlOf(r) == r.url.host \o r.url.path

(***************************************************************************)
(* validate_twilio_request                                                 *)
(***************************************************************************)
\* mutant: fails closed when no secret is configured
validate_twilio_request_closed(r, form_dict, e) ==
    LET enforce == lower(GetOr(e, "TWILIO_VALIDATE_SIGNATURE", "false")) = "true"
        auth_token == getenv(e, "TWILIO_AUTH_TOKEN")
        signature == Get(r.headers, "X-Twilio-Signature")
    IN  IF ~enforce THEN TRUE
        ELSE IF ~Truthy(auth_token) THEN FALSE
        ELSE IF ~Truthy(signature) THEN FALSE
        ELSE IF validate(auth_token, UrlOf(r), form_dict, signature) THEN TRUE
        ELSE IF PublicBackendUrl(e) # <<>>
             THEN validate(auth_token, rstrip(PublicBackendUrl(e)) \o r.url.path,
                           form_dict, signature)
        ELSE FALSE

\* mutant: the fallback URL is not tried
validate_twilio_request_nofallback(r, form_dict, e) ==
    LET enforce == lower(GetOr(e, "TWILIO_VALIDATE_SIGNATURE", "false")) = "true"
        auth_token == getenv(e, "TWILIO_AUTH_TOKEN")
        signature == Get(r.headers, "X-Twilio-Signature")
    IN  IF ~enforce \/ ~Truthy(auth_token) THEN TRUE
        ELSE IF ~Truthy(signature) THEN FALSE
        ELSE validate(auth_token, UrlOf(r), form_dict, signature)

validate_twilio_request(r, form_dict, e) ==
    LET enforce == lower(GetOr(e, "TWILIO_VALIDATE_SIGNATURE", "false")) = "true"
        auth_token == getenv(e, "TWILIO_AUTH_TOKEN")
        signature == Get(r.headers, "X-Twilio-Signature")
    IN  IF ~enforce \/ ~Truthy(auth_token) THEN TRUE
        ELSE IF ~Truthy(signature) THEN FALSE
        ELSE IF validate(auth_token, UrlOf(r), form_dict, signature) THEN TRUE
        ELSE IF PublicBackendUrl(e) # <<>>
             THEN validate(auth_token, rstrip(PublicBackendUrl(e)) \o r.url.path,
                           form_dict, signature)
        ELSE FALSE

(***************************************************************************)
(* Documents (schemas.py) and side effects.                                *)
(***************************************************************************)
Collections == {"calllog", "lead", "supportticket", "smsmessage"}

\* str(x) inside an f-string
PyStr(s) == IF s = None THEN "None" ELSE s

\* x or default
OrElse(s, d) == IF Truthy(s) THEN s ELSE d

Lead(name, email, inquiry_type, reason) ==
    [name |-> name, email |-> email, company |-> None,
     inquiry_type |-> inquiry_type, reason |-> reason, qualification |-> None]

SupportTicket(name, email, issue_type, subject, description, priority) ==
    [name |-> name, email |-> email, company |-> None, issue_type |-> issue_type,
     subject |-> subject, description |-> description, priority |-> priority,
     tags |-> <<>>]

SmsMessage(to, from_number, body, direction, status) ==
    [to |-> to, from_number |-> from_number, body |-> body,
     direction |-> direction, status |-> status, sid |-> None]

CallLog(to, from_number, sid, status, direction) ==
    [to |-> to, from_number |-> from_number, sid |-> sid, status |-> status,
     direction |-> direction]

\* the fields SmsMessage and CallLog require: constructing the document
\* raises when one of them is None
ValidSmsMessage(d) == d.to # None /\ d.from_number # None /\ d.body # None

ValidCallLog(d) == d.to # None /\ d.from_number # None /\ d.sid # None

\* What the calls of one request may do: TRUE = the call raises.
\*   send: client.messages.create      sms: the SmsMessage write
\*   doc:  the CallLog / Lead / SupportTicket write
Outcomes == [send : BOOLEAN, sms : BOOLEAN, doc : BOOLEAN]

AllSucceed == [send |-> FALSE, sms |-> FALSE, doc |-> FALSE]

\* one attempted side effect and whether it completed
Send(to, from_number, body, raises) ==
    [op |-> "send", coll |-> "twilio",
     doc |-> [to |-> to, from_number |-> from_number, body |-> body],
     ok |-> ~raises]

\* create_document(coll, Model(...)): the document is built, then inserted
Insert(coll, doc, valid, raises) ==
    [op |-> "insert", coll |-> coll, doc |-> doc, ok |-> valid /\ ~raises]

\* the documents the attempts `as` put into collection c, in order
RECURSIVE Inserted(_, _)
Inserted(as, c) ==
    IF as = <<>> THEN <<>>
    ELSE (IF Head(as).op = "insert" /\ Head(as).coll = c /\ Head(as).ok
             THEN <<Head(as).doc>> ELSE <<>>) \o Inserted(Tail(as), c)

\* the messages the attempts `as` handed to the provider, in order
RECURSIVE Delivered(_)
Delivered(as) ==
    IF as = <<>> THEN <<>>
    ELSE (IF Head(as).op = "send" /\ Head(as).ok THEN <<Head(as).doc>> ELSE <<>>)
         \o Delivered(Tail(as))

\* the store after the attempts `as`: insert(collection, document) appends
create_documents(d, as) == [c \in Collections |-> d[c] \o Inserted(as, c)]

(***************************************************************************)
(* get_twilio_client                                                       *)
(***************************************************************************)
\* raises HTTPException(500) unless both credentials are set
get_twilio_client(e) ==
    LET account_sid == getenv(e, "TWILIO_ACCOUNT_SID")
        auth_token == getenv(e, "TWILIO_AUTH_TOKEN")
    IN  IF ~Truthy(account_sid) \/ ~Truthy(auth_token)
           THEN [raised |-> TRUE, status |-> 500]
           ELSE [raised |-> FALSE, status |-> 200]

(***************************************************************************)
(* Responses.                                                              *)
(***************************************************************************)
Say(text) == [verb |-> "Say", text |-> text]

Gather(action, num_digits, timeout, nested) ==
    [verb |-> "Gather", action |-> action, numDigits |-> num_digits,
     timeout |-> timeout, nested |-> nested]

Message(text) == [verb |-> "Message", text |-> text]

\* a handler's result: HTTP status, the markup verbs of the body (none on
\* an error), and the side effects attempted, in order
Result(status, body, attempts) ==
    [status |-> status, body |-> body, attempts |-> attempts]

\* raise HTTPException(status_code=403, detail="Invalid Twilio signature")
Forbidden == Result(403, <<>>, <<>>)

NumDigits == 1
GatherTimeout == 6

GreetingText ==
    "Welcome to A H C front desk. Press 1 to book a demo. Press 2 for support. Press 3 for sales."
NoInputText == "We didn't receive any input. Goodbye."
DemoSayText == "Great. We'll text you a link to schedule a demo shortly. Goodbye."
SupportSayText == "Support selected. We will follow up by text. Goodbye."
SalesSayText == "Sales selected. Our team will reach out. Goodbye."
InvalidSayText == "Invalid selection. Goodbye."
DemoSmsText ==
    "Thanks for calling AHC! Schedule your demo here: https://cal.com/ahc/demo"
SupportSmsText ==
    "Support request received. Our team will follow up shortly. Reply here with details."
SalesSmsText ==
    "Thanks! A member of sales will reach out. Learn more: https://example.com/sales"

(***************************************************************************)
(* POST /sms/webhook                                                       *)
(***************************************************************************)
\* fx: the outcomes of the calls this request makes
sms_webhook(r, e, fx) ==
    LET form == r.form
        from_number == Get(form, "From")
        to_number == Get(form, "To")
        body == GetOr(form, "Body", "")
        doc == SmsMessage(to_number, from_number, body, "inbound", "received")
        write == Insert("smsmessage", doc, ValidSmsMessage(doc), fx.sms)
    IN  IF ~validate_twilio_request(r, form, e) THEN Forbidden
        \* the write is outside any try: its exception is the response
        ELSE IF ~write.ok THEN Result(500, <<>>, <<write>>)
        ELSE Result(200,
                    <<Message("Thanks for texting AHC! We received: '"
                              \o OrElse(body, "") \o "'. We'll be in touch shortly.")>>,
                    <<write>>)

(***************************************************************************)
(* POST /voice/twiml                                                       *)
(***************************************************************************)
HandleGatherPath == <<"/voice/handle-gather">>

\* mutant: the CallLog write is outside the try
voice_twiml_unguarded(r, e, fx) ==
    LET form == r.form
        doc == CallLog(Get(form, "To"), Get(form, "From"), Get(form, "CallSid"),
                       "inbound-start", "inbound")
        write == Insert("calllog", doc, ValidCallLog(doc), fx.doc)
        base_url == PublicBackendUrl(e)
        action_url == IF base_url # <<>> THEN rstrip(base_url) \o HandleGatherPath
                      ELSE HandleGatherPath
    IN  IF ~validate_twilio_request(r, form, e) THEN Forbidden
        ELSE IF ~write.ok THEN Result(500, <<>>, <<write>>)
        ELSE Result(200,
                    <<Gather(action_url, NumDigits, GatherTimeout, <<Say(GreetingText)>>),
                      Say(NoInputText)>>,
                    <<write>>)

\* mutant: the call is logged before the signature is checked
voice_twiml_logfirst(r, e, fx) ==
    LET form == r.form
        doc == CallLog(Get(form, "To"), Get(form, "From"), Get(form, "CallSid"),
                       "inbound-start", "inbound")
        write == Insert("calllog", doc, ValidCallLog(doc), fx.doc)
        base_url == PublicBackendUrl(e)
        action_url == IF base_url # <<>> THEN rstrip(base_url) \o HandleGatherPath
                      ELSE HandleGatherPath
    IN  IF ~validate_twilio_request(r, form, e) THEN Result(403, <<>>, <<write>>)
        ELSE Result(200,
                    <<Gather(action_url, NumDigits, GatherTimeout, <<Say(GreetingText)>>),
                      Say(NoInputText)>>,
                    <<write>>)

\* mutant: the call start is logged twice
voice_twiml_doublelog(r, e, fx) ==
    LET form == r.form
        doc == CallLog(Get(form, "To"), Get(form, "From"), Get(form, "CallSid"),
                       "inbound-start", "inbound")
        write == Insert("calllog", doc, ValidCallLog(doc), fx.doc)
        base_url == PublicBackendUrl(e)
        action_url == IF base_url # <<>> THEN rstrip(base_url) \o HandleGatherPath
                      ELSE HandleGatherPath
    IN  IF ~validate_twilio_request(r, form, e) THEN Forbidden
        ELSE Result(200,
                    <<Gather(action_url, NumDigits, GatherTimeout, <<Say(GreetingText)>>),
                      Say(NoInputText)>>,
                    <<write, write>>)

voice_twiml(r, e, fx) ==
    LET form == r.form
        from_number == Get(form, "From")
        to_number == Get(form, "To")
        sid == Get(form, "CallSid")
        doc == CallLog(to_number, from_number, sid, "inbound-start", "inbound")
        \* try: create_document("calllog", ...) except Exception: pass
        write == Insert("calllog", doc, ValidCallLog(doc), fx.doc)
        base_url == PublicBackendUrl(e)
        action_url == IF base_url # <<>> THEN rstrip(base_url) \o HandleGatherPath
                      ELSE HandleGatherPath
    IN  IF ~validate_twilio_request(r, form, e) THEN Forbidden
        ELSE Result(200,
                    <<Gather(action_url, NumDigits, GatherTimeout, <<Say(GreetingText)>>),
                      Say(NoInputText)>>,
                    <<write>>)

(***************************************************************************)
(* POST /voice/handle-gather                                               *)
(***************************************************************************)
\* safe_sms(to, text): the send and the SmsMessage write share one try, so
\* the write is reached only after the send returned
\* mutant: the message is sent but never recorded
safe_sms_nolog(client, twilio_from, to, text, fx) ==
    IF ~client.raised /\ Truthy(twilio_from) /\ Truthy(to)
       THEN <<Send(to, twilio_from, text, fx.send)>>
       ELSE <<>>

\* mutant: the record is written before the message is sent
safe_sms_writefirst(client, twilio_from, to, text, fx) ==
    IF ~client.raised /\ Truthy(twilio_from) /\ Truthy(to)
       THEN LET doc == SmsMessage(to, twilio_from, text, "outbound", "queued")
            IN  <<Insert("smsmessage", doc, ValidSmsMessage(doc), fx.sms)>>
                \o (IF fx.sms THEN <<>> ELSE <<Send(to, twilio_from, text, fx.send)>>)
       ELSE <<>>

safe_sms(client, twilio_from, to, text, fx) ==
    IF ~client.raised /\ Truthy(twilio_from) /\ Truthy(to)
       THEN <<Send(to, twilio_from, text, fx.send)>>
            \o (IF fx.send THEN <<>>
                ELSE LET doc == SmsMessage(to, twilio_from, text, "outbound", "queued")
                     IN  <<Insert("smsmessage", doc, ValidSmsMessage(doc), fx.sms)>>)
       ELSE <<>>

\* mutant: a failed side effect is the response
voice_handle_gather_propagating(r, e, fx) ==
    LET form == r.form
        digits == Get(form, "Digits")
        from_number == Get(form, "From")
        client == get_twilio_client(e)
        twilio_from == getenv(e, "TWILIO_PHONE_NUMBER")
        lead(t, reason) == Insert("lead",
            Lead("Phone Caller", "caller@unknown.local", t, reason), TRUE, fx.doc)
        ticket == Insert("supportticket",
            SupportTicket("Phone Caller", "caller@unknown.local", "other",
                "Support via IVR",
                "Caller " \o PyStr(from_number) \o " requested support via IVR",
                "medium"), TRUE, fx.doc)
        attempts ==
            CASE digits = "1" ->
                    safe_sms(client, twilio_from, from_number, DemoSmsText, fx)
                    \o <<lead("demo", "Selected '1' in IVR; phone: "
                                      \o OrElse(from_number, "unknown"))>>
              [] digits = "2" ->
                    <<ticket>>
                    \o safe_sms(client, twilio_from, from_number, SupportSmsText, fx)
              [] digits = "3" ->
                    safe_sms(client, twilio_from, from_number, SalesSmsText, fx)
                    \o <<lead("purchase", "Selected '3' in IVR; sales interest")>>
              [] OTHER -> <<>>
        text == CASE digits = "1" -> DemoSayText
                  [] digits = "2" -> SupportSayText
                  [] digits = "3" -> SalesSayText
                  [] OTHER -> InvalidSayText
    IN  IF ~validate_twilio_request(r, form, e) THEN Forbidden
        ELSE IF \E i \in 1..Len(attempts) : ~attempts[i].ok
             THEN Result(500, <<>>, attempts)
        ELSE Result(200, <<Say(text)>>, attempts)

\* mutant: the support branch also logs a lead, and an unknown digit is
\* answered with the menu again
voice_handle_gather_chatty(r, e, fx) ==
    LET form == r.form
        digits == Get(form, "Digits")
        from_number == Get(form, "From")
        client == get_twilio_client(e)
        twilio_from == getenv(e, "TWILIO_PHONE_NUMBER")
        lead(t, reason) == Insert("lead",
            Lead("Phone Caller", "caller@unknown.local", t, reason), TRUE, fx.doc)
        ticket == Insert("supportticket",
            SupportTicket("Phone Caller", "caller@unknown.local", "other",
                "Support via IVR",
                "Caller " \o PyStr(from_number) \o " requested support via IVR",
                "medium"), TRUE, fx.doc)
        attempts ==
            CASE digits = "1" ->
                    safe_sms(client, twilio_from, from_number, DemoSmsText, fx)
                    \o <<lead("demo", "Selected '1' in IVR; phone: "
                                      \o OrElse(from_number, "unknown"))>>
              [] digits = "2" ->
                    <<ticket, lead("support", "Selected '2' in IVR")>>
                    \o safe_sms(client, twilio_from, from_number, SupportSmsText, fx)
              [] digits = "3" ->
                    safe_sms(client, twilio_from, from_number, SalesSmsText, fx)
                    \o <<lead("purchase", "Selected '3' in IVR; sales interest")>>
              [] OTHER -> <<>>
        body == CASE digits = "1" -> <<Say(DemoSayText)>>
                  [] digits = "2" -> <<Say(SupportSayText)>>
                  [] digits = "3" -> <<Say(SalesSayText)>>
                  [] digits = None -> <<Say(InvalidSayText)>>
                  [] OTHER -> <<Gather(HandleGatherPath, NumDigits, GatherTimeout,
                                       <<Say(GreetingText)>>),
                                Say(InvalidSayText)>>
    IN  IF ~validate_twilio_request(r, form, e) THEN Forbidden
        ELSE Result(200, body, attempts)

\* mutant: a key press counts only for a caller whose call start is on
\* record (a server-side call session)
voice_handle_gather_session(r, e, fx) ==
    LET form == r.form
        from_number == Get(form, "From")
        known == \E i \in 1..Len(db["calllog"]) :
                    db["calllog"][i].from_number = from_number
        digits == IF known THEN Get(form, "Digits") ELSE None
        client == get_twilio_client(e)
        twilio_from == getenv(e, "TWILIO_PHONE_NUMBER")
        lead(t, reason) == Insert("lead",
            Lead("Phone Caller", "caller@unknown.local", t, reason), TRUE, fx.doc)
        ticket == Insert("supportticket",
            SupportTicket("Phone Caller", "caller@unknown.local", "other",
                "Support via IVR",
                "Caller " \o PyStr(from_number) \o " requested support via IVR",
                "medium"), TRUE, fx.doc)
        attempts ==
            CASE digits = "1" ->
                    safe_sms(client, twilio_from, from_number, DemoSmsText, fx)
                    \o <<lead("demo", "Selected '1' in IVR; phone: "
                                      \o OrElse(from_number, "unknown"))>>
              [] digits = "2" ->
                    <<ticket>>
                    \o safe_sms(client, twilio_from, from_number, SupportSmsText, fx)
              [] digits = "3" ->
                    safe_sms(client, twilio_from, from_number, SalesSmsText, fx)
                    \o <<lead("purchase", "Selected '3' in IVR; sales interest")>>
              [] OTHER -> <<>>
        text == CASE digits = "1" -> DemoSayText
                  [] digits = "2" -> SupportSayText
                  [] digits = "3" -> SalesSayText
                  [] OTHER -> InvalidSayText
    IN  IF ~validate_twilio_request(r, form, e) THEN Forbidden
        ELSE Result(200, <<Say(text)>>, attempts)

\* mutant: one try around the whole branch, so the first failure skips
\* what follows
voice_handle_gather_onetry(r, e, fx) ==
    LET form == r.form
        digits == Get(form, "Digits")
        from_number == Get(form, "From")
        client == get_twilio_client(e)
        twilio_from == getenv(e, "TWILIO_PHONE_NUMBER")
        lead(t, reason) == Insert("lead",
            Lead("Phone Caller", "caller@unknown.local", t, reason), TRUE, fx.doc)
        ticket == Insert("supportticket",
            SupportTicket("Phone Caller", "caller@unknown.local", "other",
                "Support via IVR",
                "Caller " \o PyStr(from_number) \o " requested support via IVR",
                "medium"), TRUE, fx.doc)
        sms(text) == safe_sms(client, twilio_from, from_number, text, fx)
        failed(as) == \E i \in 1..Len(as) : ~as[i].ok
        attempts ==
            CASE digits = "1" ->
                    sms(DemoSmsText)
                    \o (IF failed(sms(DemoSmsText)) THEN <<>>
                        ELSE <<lead("demo", "Selected '1' in IVR; phone: "
                                            \o OrElse(from_number, "unknown"))>>)
              [] digits = "2" ->
                    <<ticket>>
                    \o (IF ~ticket.ok THEN <<>> ELSE sms(SupportSmsText))
              [] digits = "3" ->
                    sms(SalesSmsText)
                    \o (IF failed(sms(SalesSmsText)) THEN <<>>
                        ELSE <<lead("purchase", "Selected '3' in IVR; sales interest")>>)
              [] OTHER -> <<>>
        text == CASE digits = "1" -> DemoSayText
                  [] digits = "2" -> SupportSayText
                  [] digits = "3" -> SalesSayText
                  [] OTHER -> InvalidSayText
    IN  IF ~validate_twilio_request(r, form, e) THEN Forbidden
        ELSE Result(200, <<Say(text)>>, attempts)

voice_handle_gather(r, e, fx) ==
    LET form == r.form
        digits == Get(form, "Digits")
        from_number == Get(form, "From")
        \* try: client = get_twilio_client() except Exception: client = None
        client == get_twilio_client(e)
        twilio_from == getenv(e, "TWILIO_PHONE_NUMBER")
        \* try: create_document(...) except Exception: pass
        lead(t, reason) == Insert("lead",
            Lead("Phone Caller", "caller@unknown.local", t, reason), TRUE, fx.doc)
        ticket == Insert("supportticket",
            SupportTicket("Phone Caller", "caller@unknown.local", "other",
                "Support via IVR",
                "Caller " \o PyStr(from_number) \o " requested support via IVR",
                "medium"), TRUE, fx.doc)
        attempts ==
            CASE digits = "1" ->
                    safe_sms(client, twilio_from, from_number, DemoSmsText, fx)
                    \o <<lead("demo", "Selected '1' in IVR; phone: "
                                      \o OrElse(from_number, "unknown"))>>
              [] digits = "2" ->
                    <<ticket>>
                    \o safe_sms(client, twilio_from, from_number, SupportSmsText, fx)
              [] digits = "3" ->
                    safe_sms(client, twilio_from, from_number, SalesSmsText, fx)
                    \o <<lead("purchase", "Selected '3' in IVR; sales interest")>>
              [] OTHER -> <<>>
        text == CASE digits = "1" -> DemoSayText
                  [] digits = "2" -> SupportSayText
                  [] digits = "3" -> SalesSayText
                  [] OTHER -> InvalidSayText
    IN  IF ~validate_twilio_request(r, form, e) THEN Forbidden
        ELSE Result(200, <<Say(text)>>, attempts)

(***************************************************************************)
(* The values requests and the configuration are drawn from.               *)
(***************************************************************************)
Tok == "s3cret"
Caller == "+15551234567"
OurNumber == "+15550000000"
PublicHost == <<"https://api.example.com">>
ProxyHost == <<"http://backend.internal">>
SmsWebhookPath == <<"/sms/webhook">>
VoiceTwimlPath == <<"/voice/twiml">>

\* a key that is unset, or set to one of vals
Opt(name, vals) == {Empty} \cup {name :> v : v \in vals}

\* the configurations of the webhook flow
Envs ==
    {a @@ b @@ c @@ d @@ f :
        a \in Opt("TWILIO_VALIDATE_SIGNATURE", {"true"}),
        b \in Opt("TWILIO_AUTH_TOKEN", {Tok}),
        c \in Opt("TWILIO_ACCOUNT_SID", {"AC1"}),
        d \in Opt("TWILIO_PHONE_NUMBER", {OurNumber}),
        f \in Opt("PUBLIC_BACKEND_URL", {PublicHost, PublicHost \o <<"/">>})}

\* the forms of the three webhooks
Forms(path) ==
    CASE path = VoiceTwimlPath ->
            {a @@ b @@ c : a \in Opt("From", {Caller}),
                           b \in {"To" :> OurNumber},
                           c \in {"CallSid" :> "CA1", "CallSid" :> "CA2"}}
      [] path = HandleGatherPath ->
            {a @@ b @@ c : a \in Opt("Digits", {"", "1", "2", "3", "5", "9"}),
                           b \in Opt("From", {Caller}),
                           c \in {"To" :> OurNumber}}
      [] OTHER ->
            {a @@ b @@ c : a \in Opt("From", {Caller}),
                           b \in {"To" :> OurNumber},
                           c \in {"Body" :> "hello"}}

Request(host, path, headers, form) ==
    [url |-> [host |-> host, path |-> path], headers |-> headers, form |-> form]

Paths == {SmsWebhookPath, VoiceTwimlPath, HandleGatherPath}

\* requests that reach the server behind the proxy: unsigned, signed by the
\* provider for the URL the server sees or for the public URL, and forged
RequestsAt(path) ==
    UNION {{Request(ProxyHost, path, h, form) :
               h \in Opt("X-Twilio-Signature",
                         {compute_signature(Tok, ProxyHost \o path, form),
                          compute_signature(Tok, PublicHost \o path, form),
                          "forged"})} :
           form \in Forms(path)}

Requests == UNION {RequestsAt(p) : p \in Paths}

NoRequest == Request(<<>>, <<>>, Empty, Empty)
NoResult == Result(0, <<>>, <<>>)

(***************************************************************************)
(* The server: requests arrive and are handled, one handler per endpoint.  *)
(***************************************************************************)
\* documents stored and messages sent so far
Load == Len(db["calllog"]) + Len(db["lead"]) + Len(db["supportticket"])
        + Len(db["smsmessage"]) + Len(sent)

Init ==
    /\ env \in Envs
    /\ db = [c \in Collections |-> <<>>]
    /\ sent = <<>>
    /\ req = NoRequest
    /\ out = NoResult
    /\ gate = FALSE
    /\ phase = "idle"

\* a webhook request arrives
Receive ==
    /\ phase # "pending"
    /\ Load < MaxLoad
    /\ \E r \in Requests : req' = r
    /\ phase' = "pending"
    /\ out' = NoResult
    /\ gate' = FALSE
    /\ UNCHANGED <<env, db, sent>>

\* the handler answered o: its inserts and sends have taken effect
Respond(o) ==
    /\ out' = o
    /\ db' = create_documents(db, o.attempts)
    /\ sent' = sent \o Delivered(o.attempts)
    /\ gate' = validate_twilio_request(req, req.form, env)
    /\ phase' = "done"
    /\ UNCHANGED <<env, req>>

SmsWebhook ==
    /\ phase = "pending"
    /\ req.url.path = SmsWebhookPath
    /\ \E fx \in Outcomes : Respond(sms_webhook(req, env, fx))

VoiceTwiml ==
    /\ phase = "pending"
    /\ req.url.path = VoiceTwimlPath
    /\ \E fx \in Outcomes : Respond(voice_twiml(req, env, fx))

VoiceHandleGather ==
    /\ phase = "pending"
    /\ req.url.path = HandleGatherPath
    /\ \E fx \in Outcomes : Respond(voice_handle_gather(req, env, fx))

Next == Receive \/ SmsWebhook \/ VoiceTwiml \/ VoiceHandleGather

Spec == Init /\ [][Next]_vars

(***************************************************************************)
(* The signature gate alone, over a wider range of configurations,         *)
(* request URLs and signatures.                                            *)
(***************************************************************************)
EnvsSig ==
    {a @@ b @@ f :
        a \in Opt("TWILIO_VALIDATE_SIGNATURE", {"true", "TRUE", "false", "1"}),
        b \in Opt("TWILIO_AUTH_TOKEN", {"", Tok}),
        f \in Opt("PUBLIC_BACKEND_URL",
                  {<<>>, PublicHost, PublicHost \o <<"/">>,
                   PublicHost \o <<"/", "/">>})}

\* the signatures a request for host + path with `form` may carry
Signatures(host, path, form) ==
    {"", "forged"}
    \cup {compute_signature(t, u \o path, f) :
            t \in {Tok, "0ther"},
            u \in {host, PublicHost, PublicHost \o <<"/">>},
            f \in {form, [form EXCEPT !["From"] = "+15559999999"]}}
    \cup {compute_signature(Tok, PublicHost \o SmsWebhookPath, form)}

RequestsSig ==
    UNION {{Request(host, path, h, form) :
               h \in Opt("X-Twilio-Signature", Signatures(host, path, form))} :
           host \in {ProxyHost, PublicHost},
           path \in {VoiceTwimlPath, HandleGatherPath},
           form \in {[From |-> Caller, To |-> OurNumber]}}

InitSig ==
    /\ env \in EnvsSig
    /\ db = [c \in Collections |-> <<>>]
    /\ sent = <<>>
    /\ req = NoRequest
    /\ out = NoResult
    /\ gate = FALSE
    /\ phase = "idle"

ReceiveSig ==
    /\ phase # "pending"
    /\ \E r \in RequestsSig : req' = r
    /\ phase' = "pending"
    /\ gate' = FALSE
    /\ UNCHANGED <<env, db, sent, out>>

\* the gate is applied to the request
Verify ==
    /\ phase = "pending"
    /\ gate' = validate_twilio_request(req, req.form, env)
    /\ phase' = "done"
    /\ UNCHANGED <<env, db, sent, req, out>>

NextSig == ReceiveSig \/ Verify

SpecSig == InitSig /\ [][NextSig]_vars

(***************************************************************************)
(* Properties of the signature gate.                                       *)
(***************************************************************************)
\* TWILIO_VALIDATE_SIGNATURE asks for enforcement ('true' in any letter case)
EnforcementRequested(e) ==
    /\ "TWILIO_VALIDATE_SIGNATURE" \in DOMAIN e
    /\ e["TWILIO_VALIDATE_SIGNATURE"] \in {"true", "TRUE", "True"}

\* a non-empty TWILIO_AUTH_TOKEN is set
SecretConfigured(e) ==
    "TWILIO_AUTH_TOKEN" \in DOMAIN e /\ e["TWILIO_AUTH_TOKEN"] # ""

HeaderPresent(r) == "X-Twilio-Signature" \in DOMAIN r.headers

\* the signature the provider computes for url and the form of r
Expected(e, r, url) == compute_signature(e["TWILIO_AUTH_TOKEN"], url, r.form)

\* C1: with enforcement not requested, or with no shared secret configured
\* (also when enforcement is requested), every request passes the gate,
\* whatever its signature header holds.
C1_BypassWithoutEnforcementOrSecret ==
    (phase = "done" /\ (~EnforcementRequested(env) \/ ~SecretConfigured(env)))
        => gate = TRUE

\* C1 witness: enforcement requested, no secret, a forged signature, passed
C1_Witness ==
    /\ phase = "done"
    /\ EnforcementRequested(env)
    /\ ~SecretConfigured(env)
    /\ HeaderPresent(req)
    /\ req.headers["X-Twilio-Signature"] = "forged"
    /\ gate = TRUE

Handled == phase = "pending" /\ phase' = "done"

\* documents collection c gained in this step
New(c) == Len(db'[c]) - Len(db[c])

\* collection c only gained documents at its end in this step
Appended(c) == Len(db'[c]) >= Len(db[c]) /\ SubSeq(db'[c], 1, Len(db[c])) = db[c]

Digits == Get(req.form, "Digits")

\* C3: on each inbound webhook endpoint, a request the signature gate
\* rejects is answered 403, and the stored records and the sent messages are
\* left as they were: nothing is created or sent before the gate.
C3_RejectedRequestChangesNothing ==
    [][(Handled /\ ~gate' /\ req.url.path \in Paths)
          => /\ out'.status = 403
             /\ out'.body = <<>>
             /\ out'.attempts = <<>>
             /\ db' = db
             /\ sent' = sent]_vars

\* C3 witness: a call was logged, then a forged key-press request was refused
C3_Witness ==
    /\ phase = "done"
    /\ ~gate
    /\ out.status = 403
    /\ req.url.path = HandleGatherPath
    /\ Digits = "1"
    /\ Len(db["calllog"]) = 1
    /\ Load = 1

\* the speech line of the branch table
BranchLine(d) ==
    CASE d = "1" -> "Great. We'll text you a link to schedule a demo shortly. Goodbye."
      [] d = "2" -> "Support selected. We will follow up by text. Goodbye."
      [] d = "3" -> "Sales selected. Our team will reach out. Goodbye."
      [] OTHER -> "Invalid selection. Goodbye."

\* C4: a key-press webhook that passes the gate is answered with exactly one
\* speech line, chosen by Digits alone: the demo, support or sales line for
\* "1", "2", "3", the invalid-selection line for anything else (empty, "9",
\* absent); no answer holds a further gather.
C4_OneSpeechLineByDigits ==
    (phase = "done" /\ req.url.path = HandleGatherPath /\ gate)
        => /\ out.status = 200
           /\ Len(out.body) = 1
           /\ out.body[1] = [verb |-> "Say", text |-> BranchLine(Digits)]

\* C4 witness: no Digits field at all, answered with the invalid line
C4_Witness ==
    /\ phase = "done"
    /\ req.url.path = HandleGatherPath
    /\ gate
    /\ "Digits" \notin DOMAIN req.form
    /\ out.body = <<[verb |-> "Say", text |-> "Invalid selection. Goodbye."]>>

\* C5: one key-press webhook creates records as the branch table says and no
\* more: "1" and "3" at most one Lead and no SupportTicket, "2" at most one
\* SupportTicket and no Lead, every branch at most one SmsMessage (and one
\* sent message), any other Digits nothing at all.
C5_RecordsPerBranch ==
    [][(Handled /\ req.url.path = HandleGatherPath /\ gate')
          => /\ \A c \in Collections : Appended(c)
             /\ New("calllog") = 0
             /\ New("smsmessage") <= 1
             /\ Len(sent') - Len(sent) <= 1
             /\ Digits \in {"1", "3"} => New("lead") <= 1 /\ New("supportticket") = 0
             /\ Digits = "2" => New("supportticket") <= 1 /\ New("lead") = 0
             /\ Digits \notin {"1", "2", "3"}
                  => db' = db /\ sent' = sent /\ out'.attempts = <<>>]_vars

\* C5 witness: the support branch stored one ticket, one message, no lead
C5_Witness ==
    /\ phase = "done"
    /\ req.url.path = HandleGatherPath
    /\ gate
    /\ Digits = "2"
    /\ Len(db["supportticket"]) = 1
    /\ Len(db["smsmessage"]) = 1
    /\ Len(db["lead"]) = 0
    /\ Len(sent) = 1

\* C6: the answer to a key-press webhook is the answer the same request gets
\* when every side effect succeeds and the messaging client is available:
\* no failed send or write and no missing client changes the status or the
\* markup.
C6_FailuresDoNotChangeResponse ==
    (phase = "done" /\ req.url.path = HandleGatherPath)
        => \A e \in Envs :
              validate_twilio_request(req, req.form, e) = gate
                 => /\ out.status = voice_handle_gather(req, e, AllSucceed).status
                    /\ out.body = voice_handle_gather(req, e, AllSucceed).body

\* C6 witness: the send and the lead write both failed, the demo line is
\* answered all the same
C6_Witness ==
    /\ phase = "done"
    /\ req.url.path = HandleGatherPath
    /\ gate
    /\ Digits = "1"
    /\ Len(out.attempts) = 2
    /\ \A i \in 1..2 : ~out.attempts[i].ok
    /\ out.status = 200
    /\ out.body = <<[verb |-> "Say", text |-> BranchLine("1")]>>

(***************************************************************************)
(* The server runs the handler of every request it has received.           *)
(***************************************************************************)
\* the configurations with provider credentials and a public base URL: the
\* gate is enforced or not, the sender number is set or not
EnvsFair ==
    {e \in Envs : /\ "TWILIO_AUTH_TOKEN" \in DOMAIN e
                  /\ "TWILIO_ACCOUNT_SID" \in DOMAIN e
                  /\ PublicBackendUrl(e) = PublicHost}

InitFair == Init /\ env \in EnvsFair

FairSpec ==
    /\ InitFair /\ [][Next]_vars
    /\ WF_vars(SmsWebhook)
    /\ WF_vars(VoiceTwiml)
    /\ WF_vars(VoiceHandleGather)

VoicePaths == {VoiceTwimlPath, HandleGatherPath}

\* a 200 answer whose body is voice markup: verbs, the last one spoken
VoiceMarkup(o) ==
    /\ o.status = 200
    /\ o.body # <<>>
    /\ \A i \in 1..Len(o.body) : o.body[i].verb \in {"Say", "Gather"}
    /\ o.body[Len(o.body)].verb = "Say"

\* C7: every voice webhook turn (inbound call, key press) that passed the
\* signature gate is eventually answered, and the answer is voice markup,
\* also when every side effect of the turn fails.
C7_VoiceTurnIsAnswered ==
    /\ (phase = "pending" /\ req.url.path \in VoicePaths
          /\ validate_twilio_request(req, req.form, env))
         ~> (phase = "done" /\ VoiceMarkup(out))
    /\ [][(Handled /\ req.url.path \in VoicePaths /\ gate') => VoiceMarkup(out')]_vars

\* C7 witness: the support branch, ticket write and send both failed, answered
C7_Witness ==
    /\ phase = "done"
    /\ req.url.path = HandleGatherPath
    /\ gate
    /\ Digits = "2"
    /\ Len(out.attempts) = 2
    /\ \A i \in 1..2 : ~out.attempts[i].ok
    /\ VoiceMarkup(out)

\* C8: an inbound-call webhook that passes the gate attempts exactly one
\* CallLog write, with status "inbound-start", direction "inbound" and the
\* request's To, From and CallSid, and answers one gather of one digit with a
\* 6 second timeout whose action is the handle-gather path, on the public
\* base URL (joined without its trailing slashes) when one is configured,
\* followed by the no-input line; the answer is the same whether the write
\* succeeds or fails.
C8_CallStartLoggedAndMenuAnswered ==
    (phase = "done" /\ req.url.path = VoiceTwimlPath /\ gate)
        => /\ Len(out.attempts) = 1
           /\ out.attempts[1].op = "insert"
           /\ out.attempts[1].coll = "calllog"
           /\ out.attempts[1].doc =
                [to |-> Get(req.form, "To"), from_number |-> Get(req.form, "From"),
                 sid |-> Get(req.form, "CallSid"), status |-> "inbound-start",
                 direction |-> "inbound"]
           /\ out.status = 200
           /\ Len(out.body) = 2
           /\ out.body[1].verb = "Gather"
           /\ out.body[1].numDigits = 1
           /\ out.body[1].timeout = 6
           /\ out.body[1].action =
                (IF PublicBackendUrl(env) = <<>> THEN <<>>
                 ELSE rstrip(PublicBackendUrl(env))) \o <<"/voice/handle-gather">>
           /\ out.body[1].nested = <<[verb |-> "Say", text |-> GreetingText]>>
           /\ out.body[2] =
                [verb |-> "Say", text |-> "We didn't receive any input. Goodbye."]

\* C8 witness: public base URL configured, the CallLog write failed, the menu
\* is answered
C8_Witness ==
    /\ phase = "done"
    /\ req.url.path = VoiceTwimlPath
    /\ gate
    /\ PublicBackendUrl(env) = PublicHost \o <<"/">>
    /\ Get(req.form, "From") = Caller
    /\ ~out.attempts[1].ok
    /\ Len(db["calllog"]) = 0
    /\ out.body[1].action = PublicHost \o <<"/voice/handle-gather">>

\* the documents a step added to collection c
Added(c) == SubSeq(db'[c], Len(db[c]) + 1, Len(db'[c]))

\* Digits "1" with a caller number: one demo Lead, one outbound SmsMessage
\* to the caller, the demo line
DemoOutcome ==
    /\ New("lead") = 1
    /\ Added("lead")[1].inquiry_type = "demo"
    /\ New("smsmessage") = 1
    /\ Added("smsmessage")[1].direction = "outbound"
    /\ Added("smsmessage")[1].to = Get(req.form, "From")
    /\ New("supportticket") = 0
    /\ out'.body = <<[verb |-> "Say", text |-> BranchLine("1")]>>

MessagingConfigured(e) ==
    /\ Truthy(Get(e, "TWILIO_ACCOUNT_SID"))
    /\ Truthy(Get(e, "TWILIO_AUTH_TOKEN"))
    /\ Truthy(Get(e, "TWILIO_PHONE_NUMBER"))

StartEntries(sid) ==
    {i \in 1..Len(db["calllog"]) :
        db["calllog"][i].sid = sid /\ db["calllog"][i].status = "inbound-start"}

\* C10 as stated: whatever webhooks were delivered, repeated ones included,
\* a call (CallSid) has at most one "inbound-start" CallLog entry.
C10_Original ==
    \A sid \in {"CA1", "CA2"} : Cardinality(StartEntries(sid)) <= 1

\* C10 amended: each single webhook delivery appends at most one CallLog
\* entry (the "inbound-start" entry of its own CallSid, on the inbound-call
\* webhook only), at most one of Lead and SupportTicket, and at most one
\* SmsMessage; a delivery repeated is handled again like the first.
C10_AtMostOneSetPerDelivery ==
    [][Handled
          => /\ \A c \in Collections : Appended(c)
             /\ New("calllog") <= 1
             /\ New("calllog") = 1
                  => /\ req.url.path = VoiceTwimlPath
                     /\ Added("calllog")[1].sid = Get(req.form, "CallSid")
                     /\ Added("calllog")[1].status = "inbound-start"
             /\ New("lead") + New("supportticket") <= 1
             /\ New("smsmessage") <= 1
             /\ Len(sent') - Len(sent) <= 1]_vars

\* C10 witness: the same call start delivered twice, logged twice
C10_Witness ==
    /\ phase = "done"
    /\ req.url.path = VoiceTwimlPath
    /\ Cardinality(StartEntries("CA1")) = 2

(***************************************************************************)
(* Statelessness of the voice flow.                                        *)
(***************************************************************************)
\* the confirmation text and the record of a branch, from the payload alone
BranchSms(d) ==
    CASE d = "1" -> "Thanks for calling AHC! Schedule your demo here: https://cal.com/ahc/demo"
      [] d = "2" -> "Support request received. Our team will follow up shortly. Reply here with details."
      [] OTHER -> "Thanks! A member of sales will reach out. Learn more: https://example.com/sales"

BranchRecord(d, from) ==
    CASE d = "1" ->
            [coll |-> "lead",
             doc |-> [name |-> "Phone Caller", email |-> "caller@unknown.local",
                      company |-> None, inquiry_type |-> "demo",
                      reason |-> "Selected '1' in IVR; phone: "
                                 \o (IF from \in {None, ""} THEN "unknown" ELSE from),
                      qualification |-> None]]
      [] d = "2" ->
            [coll |-> "supportticket",
             doc |-> [name |-> "Phone Caller", email |-> "caller@unknown.local",
                      company |-> None, issue_type |-> "other",
                      subject |-> "Support via IVR",
                      description |-> "Caller "
                          \o (IF from = None THEN "None" ELSE from)
                          \o " requested support via IVR",
                      priority |-> "medium", tags |-> <<>>]]
      [] OTHER ->
            [coll |-> "lead",
             doc |-> [name |-> "Phone Caller", email |-> "caller@unknown.local",
                      company |-> None, inquiry_type |-> "purchase",
                      reason |-> "Selected '3' in IVR; sales interest",
                      qualification |-> None]]

\* what a key-press request with this payload does and answers under
\* configuration e when its calls end as fx says: no store, no earlier
\* request enters it
PayloadResult(r, e, fx) ==
    LET d == Get(r.form, "Digits")
        from == Get(r.form, "From")
        texts == MessagingConfigured(e) /\ from \notin {None, ""}
        msg == [to |-> from, from_number |-> Get(e, "TWILIO_PHONE_NUMBER"),
                body |-> BranchSms(d)]
        sms == IF ~texts THEN <<>>
               ELSE <<[op |-> "send", coll |-> "twilio", doc |-> msg, ok |-> ~fx.send]>>
                    \o (IF fx.send THEN <<>>
                        ELSE <<[op |-> "insert", coll |-> "smsmessage",
                                doc |-> [to |-> msg.to, from_number |-> msg.from_number,
                                         body |-> msg.body, direction |-> "outbound",
                                         status |-> "queued", sid |-> None],
                                ok |-> ~fx.sms]>>)
        rec == <<[op |-> "insert", coll |-> BranchRecord(d, from).coll,
                  doc |-> BranchRecord(d, from).doc, ok |-> ~fx.doc]>>
    IN  [status |-> 200,
         body |-> <<[verb |-> "Say", text |-> BranchLine(d)]>>,
         attempts |-> CASE d \in {"1", "3"} -> sms \o rec
                        [] d = "2" -> rec \o sms
                        [] OTHER -> <<>>]

\* the documents among attempts `as` that went into collection c
StoredBy(as, c) ==
    {as[i].doc : i \in {j \in 1..Len(as) :
                            as[j].op = "insert" /\ as[j].coll = c /\ as[j].ok}}

\* C11: the voice flow keeps no call state on the server.  Whatever requests
\* were handled before (of this caller or another, an inbound-call webhook
\* among them or not), the answer to an accepted key-press request and the
\* records it creates are those its own payload (Digits, From, To) and the
\* configuration give, for some outcome of its own calls.
C11_GatherDependsOnPayloadOnly ==
    [][(Handled /\ req.url.path = HandleGatherPath /\ gate')
          => \E fx \in Outcomes :
                /\ out' = PayloadResult(req, env, fx)
                /\ \A c \in Collections :
                      /\ Appended(c)
                      /\ New(c) = Cardinality(StoredBy(out'.attempts, c))
                      /\ \A i \in 1..New(c) :
                            Added(c)[i] \in StoredBy(out'.attempts, c)]_vars

\* C11 witness: no call start on record, a ticket of an earlier request in
\* the store, and the sales key press is served all the same
C11_Witness ==
    /\ phase = "done"
    /\ req.url.path = HandleGatherPath
    /\ gate
    /\ Digits = "3"
    /\ Len(db["calllog"]) = 0
    /\ Len(db["supportticket"]) = 1
    /\ Len(db["lead"]) = 1
    /\ db["lead"][1].inquiry_type = "purchase"
    /\ out.body = <<[verb |-> "Say", text |-> BranchLine("3")]>>

(***************************************************************************)
(* The manual outbound endpoints: POST /sms/send and POST /voice/call.     *)
(* The JSON body of the request is its form; twiml_url is a URL, empty     *)
(* when the field is absent.                                               *)
(***************************************************************************)
SmsSendPath == <<"/sms/send">>
VoiceCallPath == <<"/voice/call">>
ManualPaths == {SmsSendPath, VoiceCallPath}

\* the id and status the provider returns for an accepted message or call
MessageSid == "SM1"
CallSid == "CA9"
QueuedStatus == "queued"

\* client.calls.create(to, from_, url)
Call(to, from_number, url, raises) ==
    [op |-> "call", coll |-> "twilio",
     doc |-> [to |-> to, from_number |-> from_number, url |-> url],
     ok |-> ~raises]

\* the calls the attempts `as` handed to the provider, in order
RECURSIVE Placed(_)
Placed(as) ==
    IF as = <<>> THEN <<>>
    ELSE (IF Head(as).op = "call" /\ Head(as).ok THEN <<Head(as).doc>> ELSE <<>>)
         \o Placed(Tail(as))

\* the JSON answer {"sid": ..., "status": ...}
Json(sid, status) == [verb |-> "json", sid |-> sid, status |-> status]

\* raise HTTPException(status_code=500, ...)
ServerError(attempts) == Result(500, <<>>, attempts)

sms_send(r, e, fx) ==
    LET from_number == getenv(e, "TWILIO_PHONE_NUMBER")
        client == get_twilio_client(e)
        to == r.form["to"]
        send == Send(to, from_number, r.form["body"], fx.send)
        doc == [SmsMessage(to, from_number, r.form["body"], "outbound", "queued")
                   EXCEPT !.sid = MessageSid]
        write == Insert("smsmessage", doc, ValidSmsMessage(doc), fx.sms)
    IN  IF ~Truthy(from_number) THEN ServerError(<<>>)
        \* get_twilio_client() is outside the try: its HTTPException is the answer
        ELSE IF client.raised THEN ServerError(<<>>)
        \* except Exception as e: raise HTTPException(status_code=500, ...)
        ELSE IF ~send.ok THEN ServerError(<<send>>)
        ELSE IF ~write.ok THEN ServerError(<<send, write>>)
        ELSE Result(200, <<Json(MessageSid, QueuedStatus)>>, <<send, write>>)

\* mutant: with no public base URL the call is placed with the bare path
voice_call_barepath(r, e, fx) ==
    LET from_number == getenv(e, "TWILIO_PHONE_NUMBER")
        client == get_twilio_client(e)
        to == r.form["to"]
        url == IF r.form["twiml_url"] # <<>> THEN r.form["twiml_url"]
               ELSE PublicBackendUrl(e) \o VoiceTwimlPath
        call == Call(to, from_number, url, fx.send)
        doc == CallLog(to, from_number, CallSid, QueuedStatus, "outbound")
        write == Insert("calllog", doc, ValidCallLog(doc), fx.doc)
    IN  IF ~Truthy(from_number) THEN ServerError(<<>>)
        ELSE IF client.raised THEN ServerError(<<>>)
        ELSE IF ~call.ok THEN ServerError(<<call>>)
        ELSE IF ~write.ok THEN ServerError(<<call, write>>)
        ELSE Result(200, <<Json(CallSid, QueuedStatus)>>, <<call, write>>)

voice_call(r, e, fx) ==
    LET from_number == getenv(e, "TWILIO_PHONE_NUMBER")
        client == get_twilio_client(e)
        to == r.form["to"]
        twiml_url == r.form["twiml_url"]
        base_url == PublicBackendUrl(e)
        url == IF twiml_url # <<>> THEN twiml_url ELSE base_url \o VoiceTwimlPath
        call == Call(to, from_number, url, fx.send)
        doc == CallLog(to, from_number, CallSid, QueuedStatus, "outbound")
        write == Insert("calllog", doc, ValidCallLog(doc), fx.doc)
    IN  IF ~Truthy(from_number) THEN ServerError(<<>>)
        ELSE IF client.raised THEN ServerError(<<>>)
        \* the HTTPException raised inside the try is caught and raised
        \* again as a 500
        ELSE IF twiml_url = <<>> /\ base_url = <<>> THEN ServerError(<<>>)
        ELSE IF ~call.ok THEN ServerError(<<call>>)
        ELSE IF ~write.ok THEN ServerError(<<call, write>>)
        ELSE Result(200, <<Json(CallSid, QueuedStatus)>>, <<call, write>>)

\* the requests of an API client
ManualRequests ==
    {Request(PublicHost, SmsSendPath, Empty, [to |-> Caller, body |-> "hello"])}
    \cup {Request(PublicHost, VoiceCallPath, Empty, [to |-> Caller, twiml_url |-> u]) :
            u \in {<<>>, <<"https://twiml.example.com/hello">>}}

ReceiveManual ==
    /\ phase # "pending"
    /\ Load < MaxLoad
    /\ \E r \in ManualRequests : req' = r
    /\ phase' = "pending"
    /\ out' = NoResult
    /\ UNCHANGED <<env, db, sent, gate>>

\* the handler answered o: its inserts, sends and calls have taken effect
RespondManual(o) ==
    /\ out' = o
    /\ db' = create_documents(db, o.attempts)
    /\ sent' = sent \o Delivered(o.attempts) \o Placed(o.attempts)
    /\ phase' = "done"
    /\ UNCHANGED <<env, req, gate>>

SmsSend ==
    /\ phase = "pending"
    /\ req.url.path = SmsSendPath
    /\ \E fx \in Outcomes : RespondManual(sms_send(req, env, fx))

VoiceCall ==
    /\ phase = "pending"
    /\ req.url.path = VoiceCallPath
    /\ \E fx \in Outcomes : RespondManual(voice_call(req, env, fx))

NextManual == ReceiveManual \/ SmsSend \/ VoiceCall

SpecManual == Init /\ [][NextManual]_vars

\* what the manual endpoint of r needs is not all configured
ConfigMissing(r, e) ==
    \/ Get(e, "TWILIO_PHONE_NUMBER") \in {None, ""}
    \/ Get(e, "TWILIO_ACCOUNT_SID") \in {None, ""}
    \/ Get(e, "TWILIO_AUTH_TOKEN") \in {None, ""}
    \/ /\ r.url.path = VoiceCallPath
       /\ r.form["twiml_url"] = <<>>
       /\ PublicBackendUrl(e) = <<>>

\* C12: /sms/send and /voice/call, called with the sender number or the
\* provider credentials missing, or /voice/call without twiml_url and with
\* no public base URL, answer 500, send no message, place no call and write
\* no SmsMessage or CallLog.
C12_MissingConfigurationIsAnError ==
    [][(Handled /\ req.url.path \in ManualPaths /\ ConfigMissing(req, env))
          => /\ out'.status = 500
             /\ out'.attempts = <<>>
             /\ db' = db
             /\ sent' = sent]_vars

\* C12 witness: credentials and sender set, one call already placed, then a
\* call without twiml_url and no public base URL is refused
C12_Witness ==
    /\ phase = "done"
    /\ req.url.path = VoiceCallPath
    /\ req.form["twiml_url"] = <<>>
    /\ PublicBackendUrl(env) = <<>>
    /\ MessagingConfigured(env)
    /\ out.status = 500
    /\ out.attempts = <<>>
    /\ Len(sent) = 1
    /\ Len(db["calllog"]) = 0

(***************************************************************************)
(* The side effects of a branch of /voice/handle-gather.                   *)
(***************************************************************************)
\* the places of the message sends, of the Lead / SupportTicket writes and
\* of the SmsMessage writes among the attempts `as`
SendsIn(as) == {i \in 1..Len(as) : as[i].op = "send"}

RecordWritesIn(as) ==
    {i \in 1..Len(as) : as[i].op = "insert" /\ as[i].coll \in {"lead", "supportticket"}}

SmsWritesIn(as) ==
    {i \in 1..Len(as) : as[i].op = "insert" /\ as[i].coll = "smsmessage"}

\* an accepted key press of branch "1", "2" or "3" is being answered
BranchStep ==
    Handled /\ req.url.path = HandleGatherPath /\ gate' /\ Digits \in {"1", "2", "3"}

\* C13: in branches "1", "2", "3", with the messaging client, the sender
\* number and the caller number available, the confirmation send and the
\* Lead / SupportTicket write are each attempted exactly once, whatever the
\* other did: no retry, no skipping after a failure; what completed stays:
\* a written record is in the store and an accepted message stays sent.
C13_EachSideEffectAttemptedOnce ==
    [][(BranchStep /\ MessagingConfigured(env) /\ Truthy(Get(req.form, "From")))
          => LET as == out'.attempts
             IN  /\ Cardinality(SendsIn(as)) = 1
                 /\ Cardinality(RecordWritesIn(as)) = 1
                 /\ \A c \in Collections : Appended(c)
                 /\ \A i \in RecordWritesIn(as) :
                       New(as[i].coll) = (IF as[i].ok THEN 1 ELSE 0)
                       /\ (as[i].ok => Added(as[i].coll) = <<as[i].doc>>)
                 /\ \A i \in SendsIn(as) :
                       sent' = (IF as[i].ok THEN sent \o <<as[i].doc>> ELSE sent)]_vars

\* C13 witness: the send failed, the lead was written all the same
C13_Witness ==
    /\ phase = "done"
    /\ req.url.path = HandleGatherPath
    /\ gate
    /\ Digits = "1"
    /\ MessagingConfigured(env)
    /\ Len(out.attempts) = 2
    /\ out.attempts[1].op = "send" /\ ~out.attempts[1].ok
    /\ out.attempts[2].coll = "lead" /\ out.attempts[2].ok
    /\ Len(db["lead"]) = 1
    /\ sent = <<>>

\* the outbound SmsMessage records in the store
OutboundRecords ==
    {i \in 1..Len(db["smsmessage"]) : db["smsmessage"][i].direction = "outbound"}

\* C14: in /voice/handle-gather an SmsMessage write comes right after the
\* successful send of that same message; with the client, the sender number
\* or the caller number missing there is no send and no SmsMessage write;
\* after a failed send there is no SmsMessage write; the Lead /
\* SupportTicket write of the branch is attempted in every case.  So the
\* store never holds more outbound SmsMessage records than messages sent.
C14_SmsRecordOnlyAfterSend ==
    /\ Cardinality(OutboundRecords) <= Len(sent)
    /\ (phase = "done" /\ req.url.path = HandleGatherPath /\ gate
          /\ Digits \in {"1", "2", "3"})
         => LET as == out.attempts
            IN  /\ \A i \in SmsWritesIn(as) :
                      /\ i > 1
                      /\ as[i - 1].op = "send"
                      /\ as[i - 1].ok
                      /\ as[i - 1].doc.to = as[i].doc.to
                      /\ as[i - 1].doc.body = as[i].doc.body
                /\ (~MessagingConfigured(env) \/ ~Truthy(Get(req.form, "From")))
                      => SendsIn(as) = {} /\ SmsWritesIn(as) = {}
                /\ (\E i \in SendsIn(as) : ~as[i].ok) => SmsWritesIn(as) = {}
                /\ Cardinality(RecordWritesIn(as)) = 1

\* C14 witness: the sales message could not be sent: no SmsMessage write,
\* the lead is written
C14_Witness ==
    /\ phase = "done"
    /\ req.url.path = HandleGatherPath
    /\ gate
    /\ Digits = "3"
    /\ Len(out.attempts) = 2
    /\ out.attempts[1].op = "send" /\ ~out.attempts[1].ok
    /\ out.attempts[2].coll = "lead"
    /\ Len(db["smsmessage"]) = 0

====
